---- MODULE Spec2Model ----
\* Model of package apply (src/apply/apply.go): the batch coordinator
\* applyOptions.Apply, the decoder Decode, the per-object orchestrator
\* ApplyUnstructured and the patch strategy selector Patch.
EXTENDS Integers, Sequences, FiniteSets, TLC

VARIABLES
    data,           \* Apply's argument: the manifest, one entry per document
    serverSide,     \* applyOptions.serverSide
    store,          \* the live object store behind dynamicClient
    pc,             \* position of the single thread running Apply
    err,            \* Apply's named result err
    unstructList,   \* Apply's unstructList (the maps are shared with ApplyUnstructured)
    failedObjects,  \* Apply's named result failedObjects
    idx,            \* position of the range loop of Apply (1-based)
    b,              \* ApplyUnstructured: b, the bytes of MarshalJSON
    dri,            \* ApplyUnstructured: dri, the resource handle
    modified,       \* ApplyUnstructured: modified
    currentUnstr,   \* ApplyUnstructured: currentUnstr (empty: not fetched)
    patchRes,       \* ApplyUnstructured: patchBytes, patchType, err of Patch
    ret,            \* what ApplyUnstructured returned: object (empty: nil) and error
    calls,          \* history: mapping lookups and transport requests, in order
    invoked,        \* history: loop positions ApplyUnstructured was invoked for
    returns,        \* history: what each ApplyUnstructured invocation returned
    ctx             \* Apply's ctx: cancelled or not, and (history) the position
                    \* being processed when it was cancelled (0: none)

vars == <<data, serverSide, store, pc, err, unstructList, failedObjects, idx, b,
          dri, modified, currentUnstr, patchRes, ret, calls, invoked, returns, ctx>>

applyVars == <<err, unstructList, failedObjects, idx>>
localVars == <<b, dri, modified, currentUnstr, patchRes>>

----------------------------------------------------------------------------
\* Bounds

MaxDocs == 2

----------------------------------------------------------------------------
\* Resource objects (unstructured.Unstructured). A string field that is ""
\* is absent, ann is the last-applied-configuration annotation (empty
\* sequence: absent, otherwise the serialized configuration it holds), mf is
\* metadata.managedFields (FALSE: absent) and F is a field of the opaque body
\* (0: absent).

Fields == {"apiVersion", "kind", "name", "generateName", "namespace", "ann", "mf", "F"}

Obj(av, k, n, g, ns, a, m, f) ==
    [apiVersion |-> av, kind |-> k, name |-> n, generateName |-> g,
     namespace |-> ns, ann |-> a, mf |-> m, F |-> f]

AbsentVal == Obj("", "", "", "", "", <<>>, FALSE, 0)

Present(o, f) == o[f] # AbsentVal[f]

\* The top-level JSON key each field lives under.
TopKey ==
    [apiVersion |-> "apiVersion", kind |-> "kind", name |-> "metadata",
     generateName |-> "metadata", namespace |-> "metadata", ann |-> "metadata",
     mf |-> "metadata", F |-> "spec"]

NoErr == [msg |-> "", ordinal |-> 0, cause |-> ""]
NoPatch == [del |-> {}, set |-> <<>>]
NoPatchRes == [patch |-> NoPatch, type |-> "", err |-> ""]
NoDri == [resource |-> "", namespaced |-> FALSE, ns |-> ""]
NoRet == [obj |-> <<>>, err |-> ""]
NoCtx == [cancelled |-> FALSE, at |-> 0]

----------------------------------------------------------------------------
\* Collaborators: discovery data behind the REST mapper, and the type registry.

\* restMapper.RESTMapping(gvk.GroupKind(), gvk.Version)
RESTMapping(kind) ==
    CASE kind = "Pod"    -> [ok |-> TRUE, resource |-> "pods", scope |-> "namespace"]
      [] kind = "Widget" -> [ok |-> TRUE, resource |-> "widgets", scope |-> "namespace"]
      [] kind = "Node"   -> [ok |-> TRUE, resource |-> "nodes", scope |-> "root"]
      [] kind = "Gadget" -> [ok |-> TRUE, resource |-> "gadgets", scope |-> "namespace"]
      [] OTHER           -> [ok |-> FALSE, resource |-> "", scope |-> ""]

\* Scheme.New(gvk): a registered type, a not-registered error or another error.
SchemeNew(kind) ==
    CASE kind \in {"Pod", "Node"} -> "ok"
      [] kind = "Widget"          -> "notRegistered"
      [] OTHER                    -> "error"

Resources == {"pods", "widgets", "nodes", "gadgets"}
Namespaces == {"", "default", "ns1"}
Names == {"a", "b"}
Keys == Resources \X Namespaces \X Names

EmptyStore == [k \in Keys |-> <<>>]

----------------------------------------------------------------------------
\* Inputs: the documents of a manifest. bad names the decoding stage a
\* malformed document fails at ("": well-formed).

Doc(bad, o) == [bad |-> bad, obj |-> o]

PlainDocs ==
    {Obj("v1", k, "a", "", ns, <<>>, FALSE, 1) :
        k \in {"Pod", "Widget", "Node"}, ns \in {"", "ns1"}}
    \cup {Obj("v1", "Ghost", "a", "", "", <<>>, FALSE, 1),
          Obj("v1", "Pod", "a", "", "", <<>>, FALSE, 2)}

NamelessDocs == {Obj("v1", "Pod", "", g, "", <<>>, FALSE, 1) : g \in {"", "g"}}

LegacyCfg == Obj("v1", "Pod", "a", "", "", <<>>, FALSE, 2)

LegacyDocs ==
    {Obj("v1", "Pod", "a", "", "", <<LegacyCfg>>, FALSE, 1),
     Obj("v1", "Pod", "a", "", "", <<>>, TRUE, 1),
     Obj("v1", "Pod", "a", "", "", <<LegacyCfg>>, TRUE, 1)}

GoodDocs == PlainDocs \cup NamelessDocs \cup LegacyDocs

BadStages == {"stream", "decode", "convert"}

DataDocs ==
    {Doc("", o) : o \in GoodDocs}
    \cup {Doc(s, Obj("v1", "Pod", "a", "", "", <<>>, FALSE, 1)) : s \in BadStages}

Manifests == UNION {[1..n -> DataDocs] : n \in 0..MaxDocs}

\* A live object nobody applied: no last-applied-configuration annotation.
LiveUnmanaged == Obj("v1", "Pod", "a", "", "default", <<>>, TRUE, 2)

InitStores ==
    {EmptyStore,
     [EmptyStore EXCEPT ![<<"pods", "default", "a">>] = <<LiveUnmanaged>>]}

----------------------------------------------------------------------------
\* Decode (lines 90-124). The err assigned at lines 105 and 112 is the one
\* declared by := at line 103, inside the loop body: after the break the
\* function's own err still holds the nil of the last decoder.Decode, and
\* line 120 formats that.

RECURSIVE DecodeFrom(_, _, _)
DecodeFrom(d, i, list) ==
    IF i > Len(d)
    THEN [list |-> list, err |-> NoErr]
    ELSE CASE d[i].bad = "stream" ->
                [list |-> list,
                 err |-> [msg |-> "parsing the section", ordinal |-> i, cause |-> "stream"]]
           [] d[i].bad \in {"decode", "convert"} ->
                [list |-> list,
                 err |-> [msg |-> "parsing the section", ordinal |-> i, cause |-> "<nil>"]]
           [] OTHER -> DecodeFrom(d, i + 1, Append(list, d[i].obj))

\* A variant that starts at the second document.
Decode_FromSecond(d) == DecodeFrom(d, 2, <<>>)

Decode(d) == DecodeFrom(d, 1, <<>>)

----------------------------------------------------------------------------
\* Configuration annotator (package util).

\* The object serialized without its last-applied-configuration annotation.
ConfigOf(o) == [o EXCEPT !.ann = <<>>]

\* util.GetModifiedConfiguration(obj, true, codec)
GetModifiedConfiguration(o) == [o EXCEPT !.ann = <<ConfigOf(o)>>]

\* util.CreateApplyAnnotation(&obj, codec)
CreateApplyAnnotation(o) == [o EXCEPT !.ann = <<ConfigOf(o)>>]

\* util.GetOriginalConfiguration(obj): the annotation's contents, or an
\* empty document when the annotation is missing.
GetOriginalConfiguration(o) == IF o.ann = <<>> THEN AbsentVal ELSE o.ann[1]

----------------------------------------------------------------------------
\* Patch (lines 218-263)

\* mergepatch.RequireKeyUnchanged(key): the patch has no top-level key `key`.
RequireKeyUnchanged(key, patch) ==
    \A f \in patch.del \cup DOMAIN patch.set : TopKey[f] # key

\* A two-way variant: additions and changes from current to modified with
\* no deletions from original to modified.
CreateThreeWayMergePatch_TwoWay(original, mod, current) ==
    LET upd == {f \in Fields : Present(mod, f) /\ mod[f] # current[f]}
    IN [del |-> {}, set |-> [f \in upd |-> mod[f]]]

\* The three-way patch: additions and changes from current to modified, plus
\* deletions from original to modified.
CreateThreeWayMergePatch(original, mod, current) ==
    LET upd == {f \in Fields : Present(mod, f) /\ mod[f] # current[f]}
        del == {f \in Fields : Present(original, f) /\ ~Present(mod, f)}
    IN [del |-> del, set |-> [f \in upd |-> mod[f]]]

\* A variant of lines 233-260 that takes every lookup error for a
\* not-registered one.
Patch_LookupErrorAsNotRegistered(cur, mod, name, gvkKind) ==
    LET original == GetOriginalConfiguration(cur)
        lookup == SchemeNew(gvkKind)
        patch == CreateThreeWayMergePatch(original, mod, cur)
    IN CASE lookup = "ok" ->
              [patch |-> patch, type |-> "StrategicMergePatchType", err |-> ""]
         [] OTHER ->
              IF /\ RequireKeyUnchanged("apiVersion", patch)
                 /\ RequireKeyUnchanged("kind", patch)
                 /\ RequireKeyUnchanged("name", patch)
              THEN [patch |-> patch, type |-> "MergePatchType", err |-> ""]
              ELSE [patch |-> NoPatch, type |-> "",
                    err |-> "At least one of apiVersion, kind and name was changed"]

Patch(cur, mod, name, gvkKind) ==
    LET original == GetOriginalConfiguration(cur)
        lookup == SchemeNew(gvkKind)
        patch == CreateThreeWayMergePatch(original, mod, cur)
    IN CASE lookup = "notRegistered" ->
              IF /\ RequireKeyUnchanged("apiVersion", patch)
                 /\ RequireKeyUnchanged("kind", patch)
                 /\ RequireKeyUnchanged("name", patch)
              THEN [patch |-> patch, type |-> "MergePatchType", err |-> ""]
              ELSE [patch |-> NoPatch, type |-> "",
                    err |-> "At least one of apiVersion, kind and name was changed"]
         [] lookup = "ok" ->
              [patch |-> patch, type |-> "StrategicMergePatchType", err |-> ""]
         [] OTHER ->
              [patch |-> NoPatch, type |-> "",
               err |-> "getting instance of versioned object"]

----------------------------------------------------------------------------
\* The transport collaborator (dynamic.ResourceInterface) and the store
\* behind it.

\* What the server keeps of a written object: the namespace of the request
\* and its own managedFields bookkeeping.
ServerNormalize(o, h) == [o EXCEPT !.namespace = h.ns, !.mf = TRUE]

ApplyMergePatch(cur, p) ==
    [f \in Fields |->
        IF f \in p.del THEN AbsentVal[f]
        ELSE IF f \in DOMAIN p.set THEN p.set[f]
        ELSE cur[f]]

Key(h, name) == <<h.resource, h.ns, name>>

Call(i, op, h, name, obj, patch, ptype, res, stored) ==
    [idx |-> i, op |-> op, namespaced |-> h.namespaced, ns |-> h.ns,
     name |-> name, obj |-> obj, patch |-> patch, ptype |-> ptype,
     res |-> res, stored |-> stored]

----------------------------------------------------------------------------
\* applyOptions.Apply (lines 66-88)

Init ==
    /\ data \in Manifests
    /\ serverSide \in BOOLEAN
    /\ store \in InitStores
    /\ pc = "ToRESTMapper"
    /\ err = NoErr
    /\ unstructList = <<>>
    /\ failedObjects = <<>>
    /\ idx = 1
    /\ b = AbsentVal
    /\ dri = NoDri
    /\ modified = AbsentVal
    /\ currentUnstr = <<>>
    /\ patchRes = NoPatchRes
    /\ ret = NoRet
    /\ calls = <<>>
    /\ invoked = <<>>
    /\ returns = <<>>
    /\ ctx = NoCtx

\* Lines 67-70 and ToRESTMapper (lines 56-64): discovery answers or fails.
ApplyToRESTMapper ==
    /\ pc = "ToRESTMapper"
    /\ \E ok \in BOOLEAN :
         IF ok
         THEN pc' = "Decode" /\ err' = NoErr
         ELSE /\ pc' = "Returned"
              /\ err' = [msg |-> "discovery", ordinal |-> 0, cause |-> "discovery"]
    /\ UNCHANGED <<data, serverSide, ctx, store, unstructList, failedObjects, idx,
                   localVars, ret, calls, invoked, returns>>

\* A variant of lines 72-75 that goes on with the documents decoded before
\* the malformed one.
ApplyDecode_IgnoresError ==
    /\ pc = "Decode"
    /\ LET r == Decode(data)
       IN /\ unstructList' = r.list
          /\ err' = r.err
          /\ pc' = "Loop"
    /\ UNCHANGED <<data, serverSide, ctx, store, failedObjects, idx, localVars, ret,
                   calls, invoked, returns>>

\* Lines 72-75
ApplyDecode ==
    /\ pc = "Decode"
    /\ LET r == Decode(data)
       IN /\ unstructList' = r.list
          /\ err' = r.err
          /\ pc' = IF r.err # NoErr THEN "Returned" ELSE "Loop"
    /\ UNCHANGED <<data, serverSide, ctx, store, failedObjects, idx, localVars, ret,
                   calls, invoked, returns>>

\* Line 77 and the call of line 79: the next object enters ApplyUnstructured.
ApplyNext ==
    /\ pc = "Loop"
    /\ idx <= Len(unstructList)
    /\ pc' = "AU_Validate"
    /\ invoked' = Append(invoked, idx)
    /\ b' = AbsentVal
    /\ dri' = NoDri
    /\ modified' = AbsentVal
    /\ currentUnstr' = <<>>
    /\ patchRes' = NoPatchRes
    /\ ret' = NoRet
    /\ UNCHANGED <<data, serverSide, ctx, store, applyVars, calls, returns>>

\* A variant of lines 79-84 that runs a failed object again.
ApplyRecord_Retries ==
    /\ pc = "Record"
    /\ returns' = Append(returns, [idx |-> idx, obj |-> ret.obj, err |-> ret.err])
    /\ idx' = IF ret.err # "" THEN idx ELSE idx + 1
    /\ pc' = "Loop"
    /\ UNCHANGED <<data, serverSide, ctx, store, err, unstructList, failedObjects,
                   localVars, ret, calls, invoked>>

\* Lines 79-84: what Apply does with ApplyUnstructured's results. object is
\* a *unstructured.Unstructured; GetName on a nil one dereferences it.
ApplyRecord ==
    /\ pc = "Record"
    /\ returns' = Append(returns, [idx |-> idx, obj |-> ret.obj, err |-> ret.err])
    /\ IF ret.err # ""
       THEN IF ret.obj = <<>>
            THEN pc' = "Panicked" /\ UNCHANGED <<failedObjects, idx>>
            ELSE /\ failedObjects' =
                      Append(failedObjects,
                             [Name |-> ret.obj[1].name, Kind |-> ret.obj[1].kind,
                              ErrMessage |-> ret.err])
                 /\ idx' = idx + 1
                 /\ pc' = "Loop"
       ELSE /\ idx' = idx + 1
            /\ pc' = "Loop"
            /\ UNCHANGED failedObjects
    /\ UNCHANGED <<data, serverSide, ctx, store, err, unstructList, localVars, ret,
                   calls, invoked>>

\* Line 87
ApplyReturn ==
    /\ pc = "Loop"
    /\ idx > Len(unstructList)
    /\ pc' = "Returned"
    /\ UNCHANGED <<data, serverSide, ctx, store, applyVars, localVars, ret, calls,
                   invoked, returns>>

----------------------------------------------------------------------------
\* ApplyUnstructured (lines 126-216). unstructuredObj is a copy of the
\* list's element that shares its map, so what it sets shows in the list.

Return(o, e) == ret' = [obj |-> o, err |-> e] /\ pc' = "Record"

\* meta.Accessor(obj): obj as a metav1.Object, or nil (empty) when its
\* dynamic type is none. The accessor methods of Unstructured have pointer
\* receivers, so only a *Unstructured is one; line 129 passes the struct by
\* value, line 205 a pointer.
Accessor(o, byPointer) == IF byPointer THEN <<o>> ELSE <<>>

\* Lines 128-144. Line 129 drops Accessor's error and line 130 calls
\* GetGenerateName on its result.
AUValidate ==
    /\ pc = "AU_Validate"
    /\ LET u == unstructList[idx]
           metadata == Accessor(u, FALSE)
       IN IF u.name = ""
          THEN IF metadata = <<>>
               THEN pc' = "Panicked" /\ UNCHANGED <<b, ret>>
               ELSE IF metadata[1].generateName # ""
               THEN Return(<<>>, "cannot use generate name with apply") /\ b' = b
               ELSE b' = u /\ pc' = "AU_Mapping" /\ ret' = ret
          ELSE b' = u /\ pc' = "AU_Mapping" /\ ret' = ret
    /\ UNCHANGED <<data, serverSide, ctx, store, applyVars, dri, modified,
                   currentUnstr, patchRes, calls, invoked, returns>>

\* A variant of lines 146-160 without the defaulting of lines 154-156.
AUMapping_NoDefault ==
    /\ pc = "AU_Mapping"
    /\ LET u == unstructList[idx]
           mapping == RESTMapping(b.kind)
       IN /\ calls' = Append(calls,
                 Call(idx, "mapping", NoDri, u.name, <<>>, <<>>, "",
                      IF mapping.ok THEN "ok" ELSE "err", <<>>))
          /\ IF ~mapping.ok
             THEN /\ Return(<<>>, "no matches for kind")
                  /\ UNCHANGED dri
             ELSE /\ dri' = [resource |-> mapping.resource,
                             namespaced |-> mapping.scope = "namespace",
                             ns |-> IF mapping.scope = "namespace"
                                    THEN u.namespace ELSE ""]
                  /\ pc' = IF serverSide THEN "AU_ServerSide" ELSE "AU_Modified"
                  /\ ret' = ret
    /\ UNCHANGED <<data, serverSide, ctx, store, applyVars, b, modified,
                   currentUnstr, patchRes, invoked, returns>>

\* Lines 146-160
AUMapping ==
    /\ pc = "AU_Mapping"
    /\ LET u == unstructList[idx]
           mapping == RESTMapping(b.kind)
           ns == IF u.namespace = "" THEN "default" ELSE u.namespace
       IN /\ calls' = Append(calls,
                 Call(idx, "mapping", NoDri, u.name, <<>>, <<>>, "",
                      IF mapping.ok THEN "ok" ELSE "err", <<>>))
          /\ IF ~mapping.ok
             THEN /\ Return(<<>>, "no matches for kind")
                  /\ UNCHANGED <<unstructList, dri>>
             ELSE /\ IF mapping.scope = "namespace"
                     THEN /\ unstructList' = [unstructList EXCEPT ![idx].namespace = ns]
                          /\ dri' = [resource |-> mapping.resource,
                                     namespaced |-> TRUE, ns |-> ns]
                     ELSE /\ dri' = [resource |-> mapping.resource,
                                     namespaced |-> FALSE, ns |-> ""]
                          /\ UNCHANGED unstructList
                  /\ pc' = IF serverSide THEN "AU_ServerSide" ELSE "AU_Modified"
                  /\ ret' = ret
    /\ UNCHANGED <<data, serverSide, ctx, store, err, failedObjects, idx, b, modified,
                   currentUnstr, patchRes, invoked, returns>>

\* What an apply-patch request can come back with: a cancelled ctx aborts
\* it, the client refuses an empty name, the server refuses a payload that
\* carries managedFields (status 400), a server without server-side apply
\* answers status 415, and "err" is an error that is no *errors.StatusError.
ApplyOutcomes(payload, name) ==
    IF name = "" \/ ctx.cancelled THEN {"err"}
    ELSE IF payload.mf THEN {"err", "400", "415"}
    ELSE {"ok", "err", "400", "415"}

StatusUnsupportedMediaType == 415

\* The Status().Code of an error that is a *errors.StatusError.
StatusCode(e) == CASE e = "415" -> 415 [] e = "400" -> 400 [] OTHER -> 0

\* isIncompatibleServerError (lines 289-295)
isIncompatibleServerError(e) ==
    IF e \notin {"400", "415"}
    THEN FALSE
    ELSE StatusCode(e) = StatusUnsupportedMediaType

\* Lines 162-181
AUServerSide ==
    /\ pc = "AU_ServerSide"
    /\ LET u == unstructList[idx]
           stripped == [u EXCEPT !.ann = <<>>, !.mf = FALSE]
       IN /\ unstructList' = [unstructList EXCEPT ![idx] = stripped]
          /\ \E outcome \in ApplyOutcomes(b, u.name) :
               LET live == ServerNormalize(b, dri)
               IN /\ calls' = Append(calls,
                        Call(idx, "apply", dri, u.name, <<b>>, <<>>, "ApplyPatchType",
                             outcome, IF outcome = "ok" THEN <<live>> ELSE <<>>))
                  /\ CASE outcome = "ok" ->
                            /\ store' = [store EXCEPT ![Key(dri, u.name)] = <<live>>]
                            /\ Return(<<>>, "")
                       [] OTHER ->
                            /\ Return(<<>>,
                                      IF isIncompatibleServerError(outcome)
                                      THEN "server-side apply not available on the server"
                                      ELSE outcome)
                            /\ UNCHANGED store
    /\ UNCHANGED <<data, serverSide, ctx, err, failedObjects, idx, localVars, invoked,
                   returns>>

\* Lines 183-186
AUModified ==
    /\ pc = "AU_Modified"
    /\ \E ok \in BOOLEAN :
         IF ok
         THEN modified' = GetModifiedConfiguration(b) /\ pc' = "AU_Get" /\ ret' = ret
         ELSE Return(<<>>, "retrieving modified configuration") /\ modified' = modified
    /\ UNCHANGED <<data, serverSide, ctx, store, applyVars, b, dri, currentUnstr,
                   patchRes, calls, invoked, returns>>

\* What a get can come back with: a cancelled ctx aborts it and the client
\* refuses an empty name.
GetOutcomes(h, name) ==
    IF name = "" \/ ctx.cancelled THEN {"err"}
    ELSE {"err", IF store[Key(h, name)] = <<>> THEN "notfound" ELSE "ok"}

\* A variant of lines 188-192 that takes every failed get for an absent
\* object.
AUGet_AnyErrorIsAbsent ==
    /\ pc = "AU_Get"
    /\ LET u == unstructList[idx]
       IN \E outcome \in GetOutcomes(dri, u.name) :
            /\ calls' = Append(calls,
                   Call(idx, "get", dri, u.name, <<>>, <<>>, "", outcome, <<>>))
            /\ IF outcome = "ok"
               THEN /\ currentUnstr' = store[Key(dri, u.name)]
                    /\ pc' = "AU_Patch"
               ELSE /\ pc' = "AU_Create"
                    /\ UNCHANGED currentUnstr
    /\ UNCHANGED <<data, serverSide, ctx, store, applyVars, b, dri, modified, patchRes,
                   ret, invoked, returns>>

\* Lines 188-192
AUGet ==
    /\ pc = "AU_Get"
    /\ LET u == unstructList[idx]
       IN \E outcome \in GetOutcomes(dri, u.name) :
            /\ calls' = Append(calls,
                   Call(idx, "get", dri, u.name, <<>>, <<>>, "", outcome, <<>>))
            /\ CASE outcome = "ok" ->
                      /\ currentUnstr' = store[Key(dri, u.name)]
                      /\ pc' = "AU_Patch"
                      /\ ret' = ret
                 [] outcome = "notfound" ->
                      /\ pc' = "AU_Create"
                      /\ UNCHANGED <<currentUnstr, ret>>
                 [] OTHER ->
                      /\ Return(<<>>, "retrieving current configuration")
                      /\ UNCHANGED currentUnstr
    /\ UNCHANGED <<data, serverSide, ctx, store, applyVars, b, dri, modified, patchRes,
                   invoked, returns>>

\* What a create can come back with: a cancelled ctx aborts it.
CreateOutcomes == IF ctx.cancelled THEN {"err"} ELSE {"ok", "err"}

\* A variant of lines 194-201 without the stamping of lines 197-199.
AUCreate_NoStamp ==
    /\ pc = "AU_Create"
    /\ LET u == unstructList[idx]
           live == ServerNormalize(u, dri)
       IN \E outcome \in CreateOutcomes :
            /\ calls' = Append(calls,
                   Call(idx, "create", dri, u.name, <<u>>, <<>>, "",
                        outcome, IF outcome = "ok" THEN <<live>> ELSE <<>>))
            /\ IF outcome = "ok"
               THEN /\ store' = [store EXCEPT ![Key(dri, u.name)] = <<live>>]
                    /\ Return(<<live>>, "")
               ELSE /\ Return(<<>>, "create")
                    /\ UNCHANGED store
    /\ UNCHANGED <<data, serverSide, ctx, applyVars, localVars, invoked, returns>>

\* Lines 194-201
AUCreate ==
    /\ pc = "AU_Create"
    /\ LET u == unstructList[idx]
           stamped == CreateApplyAnnotation(u)
           live == ServerNormalize(stamped, dri)
       IN \E stampOK \in BOOLEAN :
            IF ~stampOK
            THEN /\ Return(<<>>, "creating error")
                 /\ UNCHANGED <<unstructList, store, calls>>
            ELSE /\ unstructList' = [unstructList EXCEPT ![idx] = stamped]
                 /\ \E outcome \in CreateOutcomes :
                      /\ calls' = Append(calls,
                             Call(idx, "create", dri, stamped.name, <<stamped>>, <<>>, "",
                                  outcome, IF outcome = "ok" THEN <<live>> ELSE <<>>))
                      /\ IF outcome = "ok"
                         THEN /\ store' = [store EXCEPT ![Key(dri, stamped.name)] = <<live>>]
                              /\ Return(<<live>>, "")
                         ELSE /\ Return(<<>>, "create")
                              /\ UNCHANGED store
    /\ UNCHANGED <<data, serverSide, ctx, err, failedObjects, idx, localVars, invoked,
                   returns>>

\* Lines 204-211
AUPatch ==
    /\ pc = "AU_Patch"
    /\ LET metadata == Accessor(currentUnstr[1], TRUE)
       IN IF metadata = <<>>
          THEN pc' = "Panicked" /\ UNCHANGED patchRes
          ELSE /\ patchRes' = Patch(currentUnstr[1], modified,
                                    unstructList[idx].name, b.kind)
               /\ pc' = "AU_PatchRequest"
    /\ UNCHANGED <<data, serverSide, ctx, store, applyVars, b, dri, modified,
                   currentUnstr, ret, calls, invoked, returns>>

\* What a patch request can come back with: a cancelled ctx aborts it and
\* the server refuses a patch that changes the identity of the object it is
\* addressed to.
PatchOutcomes(cur, patched) ==
    IF /\ ~ctx.cancelled
       /\ patched.name = cur.name
       /\ patched.kind = cur.kind
       /\ patched.apiVersion = cur.apiVersion
    THEN {"ok", "err"}
    ELSE {"err"}

\* Lines 212-215
AUPatchRequest ==
    /\ pc = "AU_PatchRequest"
    /\ IF patchRes.err # ""
       THEN /\ Return(<<>>, patchRes.err)
            /\ UNCHANGED <<store, calls>>
       ELSE LET name == unstructList[idx].name
                cur == store[Key(dri, name)][1]
                patched == ApplyMergePatch(cur, patchRes.patch)
                live == ServerNormalize(patched, dri)
            IN \E outcome \in PatchOutcomes(cur, patched) :
                 /\ calls' = Append(calls,
                        Call(idx, "patch", dri, name, <<>>, <<patchRes.patch>>,
                             patchRes.type, outcome,
                             IF outcome = "ok" THEN <<live>> ELSE <<>>))
                 /\ IF outcome = "ok"
                    THEN /\ store' = [store EXCEPT ![Key(dri, name)] = <<live>>]
                         /\ Return(<<live>>, "")
                    ELSE /\ Return(<<>>, "patch")
                         /\ UNCHANGED store
    /\ UNCHANGED <<data, serverSide, ctx, applyVars, localVars, invoked, returns>>

\* The positions of the loop body of lines 77-85.
Processing ==
    {"AU_Validate", "AU_Mapping", "AU_ServerSide", "AU_Modified", "AU_Get",
     "AU_Create", "AU_Patch", "AU_PatchRequest", "Record"}

\* The caller cancels ctx (line 66) while Apply runs.
Cancel ==
    /\ pc \notin {"Returned", "Panicked"}
    /\ ~ctx.cancelled
    /\ ctx' = [cancelled |-> TRUE, at |-> IF pc \in Processing THEN idx ELSE 0]
    /\ UNCHANGED <<data, serverSide, store, pc, applyVars, localVars, ret, calls,
                   invoked, returns>>

Next ==
    \/ Cancel
    \/ ApplyToRESTMapper
    \/ ApplyDecode
    \/ ApplyNext
    \/ ApplyRecord
    \/ ApplyReturn
    \/ AUValidate
    \/ AUMapping
    \/ AUServerSide
    \/ AUModified
    \/ AUGet
    \/ AUCreate
    \/ AUPatch
    \/ AUPatchRequest

Spec == Init /\ [][Next]_vars

----------------------------------------------------------------------------
\* Patch and the request that follows it, on bounded inputs: ApplyUnstructured
\* at line 204 for a one-object batch, the get of line 188 having returned
\* the live object cur.

PatchDocs ==
    {Obj("v1", k, "a", "", "", <<>>, FALSE, f) :
        k \in {"Pod", "Widget", "Node", "Gadget"}, f \in {0, 1, 2}}

PatchOriginals ==
    {<<>>} \cup {<<Obj("v1", "Widget", n, "", "default", <<>>, FALSE, 1)>> : n \in Names}

PatchCurrents ==
    {Obj(av, k, n, "", "default", a, TRUE, f) :
        av \in {"v1", "v2"}, k \in {"Pod", "Widget"}, n \in Names,
        a \in PatchOriginals, f \in {1, 2}}

DriOf(kind) ==
    LET mapping == RESTMapping(kind)
    IN [resource |-> mapping.resource,
        namespaced |-> mapping.scope = "namespace",
        ns |-> IF mapping.scope = "namespace" THEN "default" ELSE ""]

InitPatch ==
    \E doc \in PatchDocs, cur \in PatchCurrents :
      /\ data = <<Doc("", doc)>>
      /\ serverSide = FALSE
      /\ dri = DriOf(doc.kind)
      /\ store = [EmptyStore EXCEPT ![Key(dri, doc.name)] = <<cur>>]
      /\ pc = "AU_Patch"
      /\ err = NoErr
      /\ unstructList = <<[doc EXCEPT !.namespace = dri.ns]>>
      /\ failedObjects = <<>>
      /\ idx = 1
      /\ b = doc
      /\ modified = GetModifiedConfiguration(doc)
      /\ currentUnstr = <<cur>>
      /\ patchRes = NoPatchRes
      /\ ret = NoRet
      /\ calls = <<Call(1, "mapping", NoDri, doc.name, <<>>, <<>>, "", "ok", <<>>),
                   Call(1, "get", dri, doc.name, <<>>, <<>>, "", "ok", <<>>)>>
      /\ invoked = <<1>>
      /\ returns = <<>>
      /\ ctx = NoCtx

NextPatch ==
    \/ AUPatch
    \/ AUPatchRequest

SpecPatch == InitPatch /\ [][NextPatch]_vars

----------------------------------------------------------------------------
\* Properties

Terminated == pc \in {"Returned", "Panicked"}

\* The REST mapper was built and the manifest decoded: err is assigned by
\* these two steps alone.
SetupSucceeded == pc \notin {"ToRESTMapper", "Decode"} /\ err = NoErr

TransportOps == {"get", "create", "patch", "apply"}
MutatingOps == {"create", "patch", "apply"}

CallsOf(i, ops) == {m \in DOMAIN calls : calls[m].idx = i /\ calls[m].op \in ops}

Failed(r) == r.err # ""

\* The Failure Record of a failed invocation: name and kind of the object
\* at its position, and the error.
RecordOf(r) ==
    [Name |-> data[r.idx].obj.name, Kind |-> data[r.idx].obj.kind, ErrMessage |-> r.err]

RECURSIVE RecordsOf(_)
RecordsOf(rs) ==
    IF rs = <<>> THEN <<>>
    ELSE IF Failed(Head(rs)) THEN <<RecordOf(Head(rs))>> \o RecordsOf(Tail(rs))
    ELSE RecordsOf(Tail(rs))

\* C1: once the REST mapper is built and the manifest decoded, Apply never
\* crashes on a failing object, and when it has returned every one of the N
\* decoded objects was attempted.
C1_PartialFailureIsolation ==
    SetupSucceeded =>
        /\ pc # "Panicked"
        /\ (pc = "Returned" => Len(invoked) = Len(unstructList))

\* C2: every failing ApplyUnstructured hands back an object to read name and
\* kind from, and when Apply has ended the failures list is exactly the
\* records of the failed objects, in input order.
C2_FailureRecordsExact ==
    /\ \A k \in DOMAIN returns : Failed(returns[k]) => returns[k].obj # <<>>
    /\ (Terminated => failedObjects = RecordsOf(returns))

\* C3: when the REST mapper cannot be built or a document is malformed,
\* Apply returns a non-nil error and no failures, and no object is touched:
\* no ApplyUnstructured, no mapping lookup, no get, create or patch.
C3_HardErrorsAbort ==
    /\ (err # NoErr =>
           /\ pc = "Returned"
           /\ failedObjects = <<>>
           /\ calls = <<>>
           /\ invoked = <<>>
           /\ store \in InitStores)
    /\ (pc \notin {"ToRESTMapper", "Decode"}
           /\ (\E k \in DOMAIN data : data[k].bad # "")
           => err # NoErr)

C3_Witness ==
    /\ pc = "Returned"
    /\ err.ordinal = 2
    /\ Len(unstructList) = 1
    /\ calls = <<>>

\* C4: the returned error is non-nil only when setup or decoding failed;
\* when both succeeded Apply ends by returning a nil error, whatever the
\* objects did.
C4_NilErrorAfterSetup ==
    /\ (pc = "Returned" /\ err # NoErr => invoked = <<>>)
    /\ (SetupSucceeded /\ Terminated => pc = "Returned" /\ err = NoErr)

C6_CreatePath ==
    \A m \in DOMAIN calls :
        (calls[m].op = "get" /\ calls[m].res = "notfound") =>
            LET i == calls[m].idx
                creates == CallsOf(i, {"create"})
            IN /\ ~serverSide
               /\ CallsOf(i, {"patch", "apply"}) = {}
               /\ Cardinality(creates) <= 1
               /\ \A n \in creates :
                    /\ n > m
                    /\ calls[n].obj[1].ann = <<ConfigOf(calls[n].obj[1])>>
               /\ \A k \in DOMAIN returns :
                    returns[k].idx = i =>
                        IF returns[k].err = "creating error"
                        THEN creates = {}
                        ELSE Cardinality(creates) = 1

C6_Witness ==
    \E m, n \in DOMAIN calls :
        /\ calls[m].op = "get" /\ calls[m].res = "notfound"
        /\ calls[n].op = "create" /\ calls[n].res = "ok"
        /\ calls[n].idx = calls[m].idx
        /\ store[<<"pods", "default", "a">>] = calls[n].stored

\* C7: in server-side mode the payload of every apply-patch request carries
\* neither the last-applied-configuration annotation nor managedFields.
C7_ServerSidePayloadStripped ==
    \A m \in DOMAIN calls :
        calls[m].op = "apply" =>
            /\ calls[m].obj[1].ann = <<>>
            /\ ~calls[m].obj[1].mf

\* C8: every request for a namespaced object is addressed to the object's
\* namespace, "default" when the manifest gives none, and what it writes
\* has that namespace; a cluster-scoped object is addressed with no
\* namespace.
C8_NamespaceDefaulting ==
    \A m \in DOMAIN calls :
        calls[m].op \in TransportOps =>
            LET d == data[calls[m].idx].obj
                scope == RESTMapping(d.kind).scope
            IN IF scope = "namespace"
               THEN /\ calls[m].namespaced
                    /\ calls[m].ns = IF d.namespace = "" THEN "default" ELSE d.namespace
                    /\ \A k \in DOMAIN calls[m].stored :
                         /\ calls[m].stored[k].namespace = calls[m].ns
                         /\ store[<<RESTMapping(d.kind).resource, calls[m].ns, d.name>>] # <<>>
               ELSE /\ ~calls[m].namespaced
                    /\ calls[m].ns = ""

C8_Witness ==
    \E m \in DOMAIN calls :
        /\ calls[m].op \in MutatingOps
        /\ data[calls[m].idx].obj.namespace = ""
        /\ calls[m].namespaced
        /\ calls[m].ns = "default"
        /\ calls[m].stored # <<>>
        /\ calls[m].stored[1].namespace = "default"

\* C9: an object with an empty name and a generate-name is rejected with
\* the generate-name error before any mapping lookup or request is made for
\* it, and Apply records it as a failed object and goes on.
C9_GenerateNameRejected ==
    \A k \in DOMAIN invoked :
        LET i == invoked[k]
            d == data[i].obj
        IN (d.name = "" /\ d.generateName # "" /\ ~(idx = i /\ pc = "AU_Validate")) =>
              /\ CallsOf(i, TransportOps \cup {"mapping"}) = {}
              /\ pc # "Panicked"
              /\ (idx = i /\ pc = "Record" =>
                     ret.err = "cannot use generate name with apply")
              /\ (idx > i \/ pc = "Returned" =>
                     \E j \in DOMAIN failedObjects :
                        /\ failedObjects[j].Kind = d.kind
                        /\ failedObjects[j].ErrMessage =
                               "cannot use generate name with apply")

\* C10: for a type that is not in the registry, when modified differs from
\* current in apiVersion, kind or name, Patch returns the identity-changed
\* error and no patch request is issued.
C10_IdentityPrecondition ==
    (/\ pc \in {"AU_PatchRequest", "Record"}
     /\ SchemeNew(b.kind) = "notRegistered"
     /\ \/ modified.apiVersion # currentUnstr[1].apiVersion
        \/ modified.kind # currentUnstr[1].kind
        \/ modified.name # currentUnstr[1].name)
    => /\ patchRes.err = "At least one of apiVersion, kind and name was changed"
       /\ CallsOf(idx, {"patch"}) = {}

\* A successful write at position i followed by the patch request of the
\* same manifest entry at position i + 1: the second apply of an entry whose
\* live object is what the first apply produced.
Reapplied(m, n) ==
    /\ calls[m].op \in {"create", "patch"}
    /\ calls[m].res = "ok"
    /\ calls[n].op = "patch"
    /\ calls[n].idx = calls[m].idx + 1
    /\ data[calls[n].idx] = data[calls[m].idx]

\* C11: the second apply of an unchanged manifest entry, its namespace
\* written out or left out, takes the patch path and its patch adds, changes
\* and removes no field of the live object the first apply produced.
C11_ReapplyIsNoOp ==
    \A m \in DOMAIN calls : \A n \in DOMAIN calls :
        Reapplied(m, n) =>
            LET live == calls[m].stored[1]
                patch == calls[n].patch[1]
            IN /\ patch.del \cap {f \in Fields : Present(live, f)} = {}
               /\ ApplyMergePatch(live, patch) = live

\* C12: in the patch Patch computes, every field that original holds and
\* modified lacks is removed from current, whatever value current holds for
\* it, and no field that current holds and neither original nor modified
\* holds is removed.
C12_ThreeWayDeletion ==
    (pc \in {"AU_PatchRequest", "Record"} /\ patchRes.err = "") =>
        LET current == currentUnstr[1]
            original == GetOriginalConfiguration(current)
            patched == ApplyMergePatch(current, patchRes.patch)
        IN \A f \in Fields :
             /\ (Present(original, f) /\ ~Present(modified, f))
                    => f \in patchRes.patch.del /\ ~Present(patched, f)
             /\ (Present(current, f) /\ ~Present(original, f) /\ ~Present(modified, f))
                    => f \notin patchRes.patch.del /\ patched[f] = current[f]

\* The field F was recorded with one value, was changed in the cluster to
\* another and is gone from the manifest: the patch removes it, and keeps
\* the managedFields only the cluster knows.
C12_Witness ==
    /\ pc = "AU_PatchRequest"
    /\ patchRes.err = ""
    /\ GetOriginalConfiguration(currentUnstr[1]).F = 1
    /\ currentUnstr[1].F = 2
    /\ modified.F = 0
    /\ "F" \in patchRes.patch.del
    /\ currentUnstr[1].mf
    /\ "mf" \notin patchRes.patch.del

\* C13: when ctx is cancelled while Apply processes the object at position
\* i, no object at a position greater than i is attempted: ApplyUnstructured
\* is not invoked for it and no mapping lookup or transport call is made
\* for it.
C13_CancellationStopsBatch ==
    (ctx.cancelled /\ ctx.at > 0) =>
        \A j \in (ctx.at + 1)..Len(data) :
            /\ \A k \in DOMAIN invoked : invoked[k] # j
            /\ CallsOf(j, TransportOps \cup {"mapping"}) = {}

\* The error ApplyUnstructured is to return for a failed apply-patch request:
\* the distinct one for status 415, the error of the request otherwise.
ClassifiedApplyError(res) ==
    IF res = "415" THEN "server-side apply not available on the server" ELSE res

\* C14: for every failed apply-patch request, ApplyUnstructured returns the
\* distinct "not available" error when the failure is a status error with
\* code 415 and the error of the request unchanged otherwise, the object is
\* recorded as failed with that error, Apply goes on with the batch, and the
\* request is not made again.
C14_CapabilityErrorClassification ==
    \A m \in DOMAIN calls :
        (calls[m].op = "apply" /\ calls[m].res # "ok") =>
            LET i == calls[m].idx
                e == ClassifiedApplyError(calls[m].res)
            IN /\ (pc = "Record" /\ idx = i) => ret.err = e
               /\ \A k \in DOMAIN returns :
                      returns[k].idx = i => returns[k].err = e
               /\ pc # "Panicked"
               /\ (idx > i \/ pc = "Returned") =>
                      \E k \in DOMAIN failedObjects :
                          failedObjects[k] =
                              [Name |-> data[i].obj.name, Kind |-> data[i].obj.kind,
                               ErrMessage |-> e]
               /\ Cardinality(CallsOf(i, TransportOps)) = 1

\* Decode has run and no object has been processed yet: unstructList and err
\* are what Decode returned.
Decoded == pc \notin {"ToRESTMapper", "Decode"} /\ err.msg # "discovery" /\ invoked = <<>>

WellFormed(d) == \A i \in DOMAIN d : d[i].bad = ""

\* C15: from a manifest of N well-formed documents Decode returns exactly N
\* objects, the i-th from the i-th document, and a nil error; from an empty
\* manifest, no object and a nil error.
C15_DecoderCompleteInOrder ==
    (Decoded /\ WellFormed(data)) =>
        /\ err = NoErr
        /\ Len(unstructList) = Len(data)
        /\ \A i \in DOMAIN data : unstructList[i] = data[i].obj

\* Two different well-formed documents were decoded.
C15_Witness ==
    /\ Decoded
    /\ WellFormed(data)
    /\ Len(data) = 2
    /\ data[1] # data[2]
    /\ unstructList = <<data[1].obj, data[2].obj>>
    /\ err = NoErr

\* The first malformed document of a manifest (0: none).
FirstBad(d) ==
    IF WellFormed(d) THEN 0
    ELSE CHOOSE k \in DOMAIN d : d[k].bad # "" /\ \A i \in 1..(k - 1) : d[i].bad = ""

\* C16: when document k is the first that fails, at whichever stage (stream
\* read, generic decode, conversion), Decode returns exactly the k-1 objects
\* before it, in order, and a non-nil error that names the ordinal k and
\* describes the cause of the failed stage.
C16_DecoderFailureReporting ==
    (Decoded /\ ~WellFormed(data)) =>
        LET k == FirstBad(data)
        IN /\ Len(unstructList) = k - 1
           /\ \A i \in 1..(k - 1) : unstructList[i] = data[i].obj
           /\ err # NoErr
           /\ err.ordinal = k
           /\ err.cause = data[k].bad

\* C17: after a get that failed with an error other than not-found,
\* ApplyUnstructured returns an error for that object and issues neither a
\* create nor a patch for it; every create follows a not-found get of the
\* same object and every patch request a successful get of it.
C17_AbsenceOnlyByNotFound ==
    \A n \in DOMAIN calls :
        LET i == calls[n].idx
        IN /\ (calls[n].op = "get" /\ calls[n].res = "err") =>
                /\ CallsOf(i, {"create", "patch"}) = {}
                /\ pc \notin {"AU_Create", "AU_Patch", "AU_PatchRequest"} \/ idx # i
                /\ (pc = "Record" /\ idx = i) =>
                        ret = [obj |-> <<>>, err |-> "retrieving current configuration"]
           /\ calls[n].op = "create" =>
                \E m \in 1..(n - 1) :
                    calls[m].idx = i /\ calls[m].op = "get" /\ calls[m].res = "notfound"
           /\ calls[n].op = "patch" =>
                \E m \in 1..(n - 1) :
                    calls[m].idx = i /\ calls[m].op = "get" /\ calls[m].res = "ok"

\* A get failed on an object that exists in the cluster, and
\* ApplyUnstructured has returned the error with nothing written.
C17_Witness ==
    /\ pc = "Record"
    /\ ret.err = "retrieving current configuration"
    /\ ~ctx.cancelled
    /\ \E n \in DOMAIN calls :
          /\ calls[n].idx = idx
          /\ calls[n].op = "get"
          /\ calls[n].res = "err"
          /\ store[<<"pods", calls[n].ns, calls[n].name>>] # <<>>
    /\ CallsOf(idx, MutatingOps) = {}

C19_NoEmptyNameTransport ==
    /\ \A n \in DOMAIN calls : calls[n].op \in TransportOps => calls[n].name # ""
    /\ \A k \in DOMAIN invoked :
          LET i == invoked[k]
          IN data[i].obj.name = "" =>
                /\ CallsOf(i, TransportOps \cup {"mapping"}) = {}
                /\ idx = i => pc \in {"AU_Validate", "Record"}
                /\ (pc = "Record" /\ idx = i) => ret.err # ""

\* C20: whenever ApplyUnstructured completes without error, through the
\* server-side path, the create path or the patch path, the object it
\* returns is non-nil and is the live object the request produced.
C20_DoneReturnsLiveObject ==
    /\ \A k \in DOMAIN returns : returns[k].err = "" => returns[k].obj # <<>>
    /\ (pc = "Record" /\ ret.err = "") =>
          /\ ret.obj # <<>>
          /\ ret.obj = calls[Len(calls)].stored

====
